---- MODULE Spec2Model ----
(***************************************************************************)
(* Model of the profile processing pipeline (ProfileProcessor), its batch  *)
(* runner and the BrightData result poller.                                *)
(*                                                                         *)
(* The profile store is the table "profiles" (one function per column the  *)
(* pipeline writes), the audit trail is the table "processing_logs".  A    *)
(* run is one invocation of ProfileProcessor.process_profile.  The runs    *)
(* are coroutines of one asyncio event loop: a run is only suspended while *)
(* it awaits the scraper or the assessment service, so the code between    *)
(* two such awaits executes without another run of the loop interleaving   *)
(* (Busy below); the commits inside such a stretch are still separate      *)
(* steps, because each is a separately visible state of the database.      *)
(***************************************************************************)
EXTENDS Integers, Sequences, FiniteSets

\* ---------------------------------------------------------------- bounds
NProfiles == 2
MaxRuns == 3
MaxScore == 2
MaxLimit == 2
\* words in a company name or job title, letters of it whose case is changed
MaxWords == 3
MaxToggles == 1
\* follower and connection counts
MaxFollowers == 2600
MaxConnections == 2

\* ------------------------------------------------------ program constants
\* settings.max_concurrent_profiles
DefaultMaxConcurrent == 5
\* max_attempts in BrightDataService._wait_for_results
MaxAttempts == 18
\* settings.brightdata_retries
Retries == 3

Pid == 1..NProfiles
RunId == 1..MaxRuns
Scores == 1..MaxScore

\* A nullable column: NULL is the empty tuple, a value v is <<v>>.
Null == <<>>
Some(v) == <<v>>
Nullable(S) == {Null} \cup {Some(v) : v \in S}

VARIABLES
    processing_status,  \* Profile.processing_status, per profile id
    linkedin_profile,   \* TRUE iff Profile.linkedin_profile is a non-empty URL
    final_score,        \* Profile.final_score (nullable)
    ranking,            \* Profile.ranking (nullable)
    completed_seq,      \* the profiles in the order of their latest committed _save_results
    logs,               \* the rows of processing_logs: per invocation, in insertion order
    runs,               \* the invocations of process_profile
    batch,              \* the process_batch call, its semaphore and its aggregate
    poller,             \* one _wait_for_results call
    call                \* one call of a scoring helper: its arguments and what it returned

vars == <<processing_status, linkedin_profile, final_score, ranking, completed_seq, logs, runs, batch, poller, call>>
store == <<processing_status, linkedin_profile, final_score, ranking, completed_seq>>

\* ------------------------------------------------------------ audit rows
\* ProcessingLog(profile_id, step, status).  The table is kept as one list per
\* invocation (the rows that invocation wrote, oldest first).
Row(p, step, status) == [profile_id |-> p, step |-> step, status |-> status]

\* _log_step: add the row and commit; an exception of the commit is swallowed,
\* so on a session that refuses commits the row is lost.
LogStep(lg, ok, p, step, status, r) ==
    IF ok THEN [lg EXCEPT ![r] = Append(@, Row(p, step, status))] ELSE lg

\* ------------------------------------------------------------------ runs
NoRun ==
    [pc |-> "none", pid |-> 0, in_batch |-> FALSE, had_ref |-> FALSE,
     scrape |-> "none", assess |-> "none", score |-> Null, commit |-> "none",
     failed_step |-> "none", result |-> "none", result_score |-> Null,
     result_ranking |-> Null, scrape_calls |-> 0, assess_calls |-> 0,
     discovery_calls |-> 0]

\* The stretches of process_profile that run without suspending.
SyncPcs == {"save", "save_log", "rank", "error", "error_log"}
InFlightPcs == {"scraping", "assessing"} \cup SyncPcs

\* Busy as it would be if the runs could be suspended anywhere.
NeverBusy == FALSE

Busy == \E r \in RunId : runs[r].pc \in SyncPcs
InFlight(r) == runs[r].pc \in InFlightPcs
Used == {r \in RunId : runs[r].pc # "none"}
NextRun == Cardinality(Used) + 1

\* The session of run r accepts commits unless an earlier commit of the run
\* failed and left the session needing a rollback that the code never issues.
SessionOk(r) == runs[r].commit # "failed_poisoned"

\* ----------------------------------------------------------------- batch
NoBatch ==
    [state |-> "none", limit |-> 0, permits |-> 0, members |-> <<>>,
     total |-> 0, successful |-> 0, failed |-> 0]

Members == {batch.members[i] : i \in 1..Len(batch.members)}

\* Release as it would be if the permit were only given back on the success
\* path (a release after the call instead of a context manager).
ReleaseOnSuccessOnly(b, r) ==
    IF runs[r].in_batch /\ runs[r].pc = "rank" THEN [b EXCEPT !.permits = @ + 1] ELSE b

\* process_with_semaphore: leaving "async with semaphore" releases one permit.
Release(b, r) ==
    IF runs[r].in_batch THEN [b EXCEPT !.permits = @ + 1] ELSE b

\* ---------------------------------------------------- process_profile
\* StartRun as it would be with the discovery step still wired in
\* (_ensure_linkedin_url): a started row and a discovery call before the
\* reference is looked at.
StartRunWithDiscovery(r, p, inb) ==
    /\ processing_status' = [processing_status EXCEPT ![p] = "processing"]
    /\ IF linkedin_profile[p]
       THEN /\ logs' = LogStep(logs, TRUE, p, "brightdata_scraping", "started", r)
            /\ runs' = [runs EXCEPT ![r] =
                          [NoRun EXCEPT !.pc = "scraping", !.pid = p, !.in_batch = inb,
                                        !.had_ref = TRUE, !.scrape_calls = 1]]
       ELSE /\ logs' = LogStep(logs, TRUE, p, "linkedin_discovery", "started", r)
            /\ runs' = [runs EXCEPT ![r] =
                          [NoRun EXCEPT !.pc = "error", !.pid = p, !.in_batch = inb,
                                        !.had_ref = FALSE, !.failed_step = "linkedin_url",
                                        !.discovery_calls = 1]]
    /\ UNCHANGED <<linkedin_profile, final_score, ranking, completed_seq>>

\* Lines 39-60 and 150: load the profile, set and commit status "processing",
\* check the reference; without one go to the error handler, with one write
\* the scrape step's started row and await the scraper.
StartRun(r, p, inb) ==
    /\ processing_status' = [processing_status EXCEPT ![p] = "processing"]
    /\ IF linkedin_profile[p]
       THEN /\ logs' = LogStep(logs, TRUE, p, "brightdata_scraping", "started", r)
            /\ runs' = [runs EXCEPT ![r] =
                          [NoRun EXCEPT !.pc = "scraping", !.pid = p, !.in_batch = inb,
                                        !.had_ref = TRUE, !.scrape_calls = 1]]
       ELSE /\ logs' = logs
            /\ runs' = [runs EXCEPT ![r] =
                          [NoRun EXCEPT !.pc = "error", !.pid = p, !.in_batch = inb,
                                        !.had_ref = FALSE, !.failed_step = "linkedin_url"]]
    /\ UNCHANGED <<linkedin_profile, final_score, ranking, completed_seq>>

\* POST /profiles/{id}/process: one invocation outside any batch.
Invoke(p) ==
    /\ ~Busy
    /\ NextRun \in RunId
    /\ StartRun(NextRun, p, FALSE)
    /\ UNCHANGED <<batch, poller, call>>

\* Ids that no row of the profile store has.
UnknownIds == {NProfiles + 1}

\* InvokeUnknown as it would be if the missing profile were reported through
\* the error handler with an audit row.
InvokeUnknownLogged(id) ==
    /\ ~Busy
    /\ NextRun \in RunId
    /\ runs' = [runs EXCEPT ![NextRun] = [NoRun EXCEPT !.pc = "done", !.pid = id,
                                                       !.result = "not_found"]]
    /\ logs' = LogStep(logs, TRUE, id, "general", "failed", NextRun)
    /\ UNCHANGED <<store, batch, poller, call>>

\* Lines 39-44 for an id without a row: the query finds nothing and the call
\* returns {"error": "Profile not found", "profile_id": id}; the session is
\* closed without a write.
InvokeUnknown(id) ==
    /\ ~Busy
    /\ NextRun \in RunId
    /\ runs' = [runs EXCEPT ![NextRun] = [NoRun EXCEPT !.pc = "done", !.pid = id,
                                                       !.result = "not_found"]]
    /\ UNCHANGED <<store, logs, batch, poller, call>>

\* _scrape_linkedin_profile after the scraper returned (lines 155-165), then
\* lines 61-64 or the start of _assess_with_gpt (line 194).
ScrapeReturns(r, out) ==
    /\ ~Busy
    /\ runs[r].pc = "scraping"
    /\ LET p == runs[r].pid IN
       IF out = "data"
       THEN /\ logs' = LogStep(LogStep(logs, TRUE, p, "brightdata_scraping", "completed", r),
                               TRUE, p, "gpt_assessment", "started", r)
            /\ runs' = [runs EXCEPT ![r].pc = "assessing", ![r].scrape = out,
                                    ![r].assess_calls = @ + 1]
       ELSE /\ logs' = LogStep(logs, TRUE, p, "brightdata_scraping", "failed", r)
            /\ runs' = [runs EXCEPT ![r].pc = "error", ![r].scrape = out,
                                    ![r].failed_step = "brightdata_scraping"]
    /\ UNCHANGED <<store, batch, poller, call>>

\* AssessReturns as it would be if an error-tagged assessment were asked for
\* again instead of failing the run.
AssessReturnsRetrying(r, out, sc) ==
    /\ ~Busy
    /\ runs[r].pc = "assessing"
    /\ LET p == runs[r].pid IN
       IF out = "ok"
       THEN /\ logs' = LogStep(logs, TRUE, p, "gpt_assessment", "completed", r)
            /\ runs' = [runs EXCEPT ![r].pc = "save", ![r].assess = out, ![r].score = sc]
       ELSE /\ logs' = logs
            /\ runs' = [runs EXCEPT ![r].assess = out, ![r].assess_calls = @ + 1]
    /\ UNCHANGED <<store, batch, poller, call>>

\* _assess_with_gpt after the service returned (lines 199-210), then lines 76-79.
\* out = "ok": a non-empty assessment without an "error" key, whose
\* overall_score is sc (JSON null included); out = "error": the fallback
\* assessment, an empty answer, or an exception.
AssessReturns(r, out, sc) ==
    /\ ~Busy
    /\ runs[r].pc = "assessing"
    /\ LET p == runs[r].pid IN
       IF out = "ok"
       THEN /\ logs' = LogStep(logs, TRUE, p, "gpt_assessment", "completed", r)
            /\ runs' = [runs EXCEPT ![r].pc = "save", ![r].assess = out, ![r].score = sc]
       ELSE /\ logs' = LogStep(logs, TRUE, p, "gpt_assessment", "failed", r)
            /\ runs' = [runs EXCEPT ![r].pc = "error", ![r].assess = out,
                                    ![r].failed_step = "gpt_assessment"]
    /\ UNCHANGED <<store, batch, poller, call>>

\* SaveResults as it would be if the results were written to the store before
\* the commit could fail (a write per field instead of one transaction).
SaveResultsPartial(r, c) ==
    /\ runs[r].pc = "save"
    /\ LET p == runs[r].pid IN
       /\ final_score' = [final_score EXCEPT ![p] = runs[r].score]
       /\ IF c = "ok"
          THEN /\ processing_status' = [processing_status EXCEPT ![p] = "completed"]
               /\ completed_seq' = Append(SelectSeq(completed_seq, LAMBDA q : q # p), p)
               /\ runs' = [runs EXCEPT ![r].pc = "save_log", ![r].commit = c]
               /\ logs' = logs
          ELSE /\ logs' = LogStep(logs, c = "failed_usable", p, "save_results", "failed", r)
               /\ runs' = [runs EXCEPT ![r].pc = "error", ![r].commit = c,
                                       ![r].failed_step = "general"]
               /\ UNCHANGED <<processing_status, completed_seq>>
    /\ UNCHANGED <<linkedin_profile, ranking, batch, poller, call>>

\* _save_results up to its commit (lines 217-236).  c = "ok": the results and
\* status "completed" are committed.  Otherwise the commit raised and nothing
\* of the transaction is stored; the except clause tries to write the failed
\* row and re-raises into process_profile's handler (step "general").  After a
\* failed commit the session is either usable again ("failed_usable") or
\* refuses every further commit ("failed_poisoned").
SaveResults(r, c) ==
    /\ runs[r].pc = "save"
    /\ LET p == runs[r].pid IN
       IF c = "ok"
       THEN /\ final_score' = [final_score EXCEPT ![p] = runs[r].score]
            /\ processing_status' = [processing_status EXCEPT ![p] = "completed"]
            /\ completed_seq' = Append(SelectSeq(completed_seq, LAMBDA q : q # p), p)
            /\ runs' = [runs EXCEPT ![r].pc = "save_log", ![r].commit = c]
            /\ logs' = logs
       ELSE /\ logs' = LogStep(logs, c = "failed_usable", p, "save_results", "failed", r)
            /\ runs' = [runs EXCEPT ![r].pc = "error", ![r].commit = c,
                                    ![r].failed_step = "general"]
            /\ UNCHANGED <<final_score, processing_status, completed_seq>>
    /\ UNCHANGED <<linkedin_profile, ranking, batch, poller, call>>

\* _save_results line 238.
SaveLog(r) ==
    /\ runs[r].pc = "save_log"
    /\ logs' = LogStep(logs, TRUE, runs[r].pid, "save_results", "completed", r)
    /\ runs' = [runs EXCEPT ![r].pc = "rank"]
    /\ UNCHANGED <<store, batch, poller, call>>

\* The query of _update_rankings: the completed profiles with a score.
Eligible == {p \in Pid : processing_status[p] = "completed" /\ final_score[p] # Null}

\* RankOrders as it would be with order_by(final_score) (ascending).
RankOrdersAscending(E) ==
    {ord \in [1..Cardinality(E) -> E] :
        /\ \A i, j \in 1..Cardinality(E) : i # j => ord[i] # ord[j]
        /\ \A i, j \in 1..Cardinality(E) :
              i < j => final_score[ord[i]][1] <= final_score[ord[j]][1]}

\* order_by(final_score.desc()): every listing of the rows by non-increasing
\* score; the order of rows with equal scores is the database's choice.
RankOrders(E) ==
    {ord \in [1..Cardinality(E) -> E] :
        /\ \A i, j \in 1..Cardinality(E) : i # j => ord[i] # ord[j]
        /\ \A i, j \in 1..Cardinality(E) :
              i < j => final_score[ord[i]][1] >= final_score[ord[j]][1]}

\* enumerate(profiles, 1): the row at position i gets rank i; rows outside
\* the query keep the rank they had.
AssignRanks(ord) ==
    [p \in Pid |->
        IF \E i \in DOMAIN ord : ord[i] = p
        THEN Some(CHOOSE i \in DOMAIN ord : ord[i] = p)
        ELSE ranking[p]]

\* _update_rankings and the return of process_profile (lines 85-93).
UpdateRankings(r) ==
    /\ runs[r].pc = "rank"
    /\ \E ord \in RankOrders(Eligible) :
          /\ ranking' = AssignRanks(ord)
          /\ runs' = [runs EXCEPT ![r].pc = "done", ![r].result = "success",
                                  ![r].result_score = final_score[runs[r].pid],
                                  ![r].result_ranking = ranking'[runs[r].pid]]
    /\ batch' = Release(batch, r)
    /\ UNCHANGED <<processing_status, linkedin_profile, final_score, completed_seq, logs, poller, call>>

\* HandleError as it would be with an update that is not restricted to the
\* run's own profile: every profile in processing is marked failed.
HandleErrorEveryProfile(r) ==
    /\ runs[r].pc = "error"
    /\ IF SessionOk(r)
       THEN /\ processing_status' = [q \in Pid |-> IF processing_status[q] = "processing"
                                                   THEN "failed" ELSE processing_status[q]]
            /\ runs' = [runs EXCEPT ![r].pc = "error_log"]
            /\ batch' = batch
       ELSE /\ processing_status' = processing_status
            /\ runs' = [runs EXCEPT ![r].pc = "done", ![r].result = "error_unhandled"]
            /\ batch' = Release(batch, r)
    /\ UNCHANGED <<linkedin_profile, final_score, ranking, completed_seq, logs, poller, call>>

\* _handle_processing_error lines 331-333: set and commit status "failed".  On
\* a session that refuses the commit the except clause (lines 341-343) returns
\* an error without failed_step and the stored status stays as it was.
HandleError(r) ==
    /\ runs[r].pc = "error"
    /\ IF SessionOk(r)
       THEN /\ processing_status' = [processing_status EXCEPT ![runs[r].pid] = "failed"]
            /\ runs' = [runs EXCEPT ![r].pc = "error_log"]
            /\ batch' = batch
       ELSE /\ processing_status' = processing_status
            /\ runs' = [runs EXCEPT ![r].pc = "done", ![r].result = "error_unhandled"]
            /\ batch' = Release(batch, r)
    /\ UNCHANGED <<linkedin_profile, final_score, ranking, completed_seq, logs, poller, call>>

\* _handle_processing_error lines 334-340: the failed row, then the error result.
ErrorLog(r) ==
    /\ runs[r].pc = "error_log"
    /\ logs' = LogStep(logs, TRUE, runs[r].pid, runs[r].failed_step, "failed", r)
    /\ runs' = [runs EXCEPT ![r].pc = "done", ![r].result = "error"]
    /\ batch' = Release(batch, r)
    /\ UNCHANGED <<store, poller, call>>

\* The "failed_step" key of the dict process_profile returned: present in the
\* result built at lines 336-340, absent from the one built at line 343 and
\* from a success result.
ResultFailedStep(r) ==
    IF runs[r].result = "error" THEN Some(runs[r].failed_step) ELSE Null

\* The steps a result or an audit row can name.
Steps == {"linkedin_url", "brightdata_scraping", "gpt_assessment", "save_results", "general"}

\* ------------------------------------------------------- process_batch
\* The ids a caller may pass: any non-empty list that the run slots allow.
BatchLists(n) == UNION {[1..k -> Pid] : k \in 1..n}

\* Lines 372-387: the concurrency ceiling (None or 0 falls back to the
\* setting), the semaphore, and one process_with_semaphore task per id.
ProcessBatch(ids, maxc) ==
    /\ ~Busy
    /\ batch.state = "none"
    /\ LET first == NextRun
           lim == IF maxc = 0 THEN DefaultMaxConcurrent ELSE maxc IN
       /\ runs' = [r \in RunId |->
                     IF r >= first /\ r < first + Len(ids)
                     THEN [NoRun EXCEPT !.pc = "queued", !.pid = ids[r - first + 1],
                                        !.in_batch = TRUE]
                     ELSE runs[r]]
       /\ batch' = [NoBatch EXCEPT !.state = "running", !.limit = lim, !.permits = lim,
                                   !.members = [i \in 1..Len(ids) |-> first + i - 1]]
    /\ UNCHANGED <<store, logs, poller, call>>

\* The tasks wait on the semaphore in creation order.
FirstQueued(r) ==
    /\ r \in Members
    /\ runs[r].pc = "queued"
    /\ \A q \in Members : runs[q].pc = "queued" => r <= q

\* Acquire as it would be without waiting for a free permit.
AcquireUnbounded(r) ==
    batch' = [batch EXCEPT !.permits = @ - 1]

\* "async with semaphore" entered: the permit is taken only when one is free.
Acquire(r) ==
    /\ batch.permits > 0
    /\ batch' = [batch EXCEPT !.permits = @ - 1]

\* process_with_semaphore (lines 379-381): take a permit, call process_profile.
BeginQueued(r) ==
    /\ ~Busy
    /\ batch.state = "running"
    /\ FirstQueued(r)
    /\ Acquire(r)
    /\ StartRun(r, runs[r].pid, TRUE)
    /\ UNCHANGED <<poller, call>>

\* Line 390: the results that are dicts with a true "success".
Successful(ms) == Cardinality({r \in ms : runs[r].result = "success"})

\* Lines 384-400: gather returned every task's result; the aggregate counts.
BatchReturn ==
    /\ batch.state = "running"
    /\ \A r \in Members : runs[r].pc = "done"
    /\ batch' = [batch EXCEPT !.state = "returned",
                              !.total = Len(batch.members),
                              !.successful = Successful(Members),
                              !.failed = Len(batch.members) - Successful(Members)]
    /\ UNCHANGED <<store, logs, runs, poller, call>>

\* ------------------------------------- process_profiles_sequentially
\* The listings of the set S in any order (a query without order_by).
Orderings(S) ==
    {ord \in [1..Cardinality(S) -> S] :
        \A i, j \in 1..Cardinality(S) : i # j => ord[i] # ord[j]}

\* The listing of S by created_at; the profiles are created in id order.
ByCreatedAt(S) ==
    CHOOSE ord \in Orderings(S) : \A i, j \in 1..Cardinality(S) : i < j => ord[i] < ord[j]

\* query.limit(n)
Limit(ord, n) == IF n < Len(ord) THEN SubSeq(ord, 1, n) ELSE ord

\* Lines 416-426: the rows whose id is in profile_ids, or without ids the
\* pending and failed rows by created_at; at most max_profiles of them when
\* that is given (None and 0 mean no limit).
ProfilesToProcess(profile_ids, max_profiles) ==
    LET listings ==
            IF profile_ids # {}
            THEN Orderings(profile_ids)
            ELSE {ByCreatedAt({p \in Pid : processing_status[p] \in {"pending", "failed"}})} IN
    {IF max_profiles # 0 THEN Limit(ord, max_profiles) ELSE ord : ord \in listings}

\* Lines 413-436: select the profiles and set up the aggregate.
ProcessProfilesSequentially(profile_ids, max_profiles) ==
    /\ call.fn = "none"
    /\ \E ps \in ProfilesToProcess(profile_ids, max_profiles) :
          call' = [fn |-> "sequential", pc |-> "loop", profiles |-> ps, i |-> 1,
                   run |-> 0, total_profiles |-> Len(ps), successful |-> 0, failed |-> 0,
                   results |-> <<>>, sleeps |-> <<>>]
    /\ UNCHANGED <<store, logs, runs, batch, poller>>

\* Line 443: the loop calls process_profile for the i-th profile and awaits it.
SequentialBegin ==
    /\ call.fn = "sequential" /\ call.pc = "loop"
    /\ call.i <= Len(call.profiles)
    /\ NextRun \in RunId
    /\ StartRun(NextRun, call.profiles[call.i], FALSE)
    /\ call' = [call EXCEPT !.pc = "awaiting", !.run = NextRun]
    /\ UNCHANGED <<batch, poller>>

\* Lines 464-472: process_profile raised.  It does when the query of line 42
\* raises (the database cannot be reached) and the query its handler repeats
\* at line 98 raises again: nothing is stored or logged, and the exception
\* leaves process_profile.  The loop counts a failure and goes to the next
\* profile; the sleep of line 462 is in the try block and is skipped.
SequentialRaised ==
    /\ call.fn = "sequential" /\ call.pc = "loop"
    /\ call.i <= Len(call.profiles)
    /\ call' = [call EXCEPT !.failed = @ + 1, !.i = @ + 1,
                            !.results = Append(@, [profile_id |-> call.profiles[call.i],
                                                   result |-> "raised"])]
    /\ UNCHANGED <<store, logs, runs, batch, poller>>

\* Lines 445-462: process_profile returned; count it by the "error" key of
\* its result, record it, and sleep unless it was the last profile.
SequentialCollect ==
    /\ call.fn = "sequential" /\ call.pc = "awaiting"
    /\ runs[call.run].pc = "done"
    /\ LET res == runs[call.run].result
           last == ~(call.i < Len(call.profiles)) IN
       call' = [call EXCEPT
                   !.successful = IF res = "success" THEN @ + 1 ELSE @,
                   !.failed = IF res = "success" THEN @ ELSE @ + 1,
                   !.results = Append(@, [profile_id |-> call.profiles[call.i],
                                          result |-> res]),
                   !.pc = IF last THEN "loop" ELSE "sleeping",
                   !.i = IF last THEN @ + 1 ELSE @]
    /\ UNCHANGED <<store, logs, runs, batch, poller>>

\* asyncio.sleep(10) of line 462 is over.
SequentialWake ==
    /\ call.fn = "sequential" /\ call.pc = "sleeping"
    /\ call' = [call EXCEPT !.pc = "loop", !.i = @ + 1, !.sleeps = Append(@, call.i)]
    /\ UNCHANGED <<store, logs, runs, batch, poller>>

\* Lines 474-479: the loop is over, the aggregate is returned.
SequentialReturn ==
    /\ call.fn = "sequential" /\ call.pc = "loop"
    /\ call.i > Len(call.profiles)
    /\ call' = [call EXCEPT !.pc = "returned"]
    /\ UNCHANGED <<store, logs, runs, batch, poller>>

\* ------------------------------------------- _wait_for_results (poller)
\* What the backend can answer to one GET of the snapshot.
SuccessShapes == {"list", "object"}        \* 200: non-empty list / dict with "id"
WaitShapes == {"running", "accepted", "not_found"}  \* 200 status running / 202 / 404
Responses == SuccessShapes \cup WaitShapes \cup {"unrecognized", "error_status", "exception"}

\* What the backend can answer to the trigger POST: 200 with or without a
\* snapshot_id, 429, another status, or the request raising (a timeout, or
\* any other exception such as a connection error).
TriggerResponses ==
    {"snapshot", "no_snapshot", "rate_limited", "error_status", "timeout", "exception"}
TransportErrors == {"timeout", "exception"}

\* How a scrape ended without a document, by the exit taken in the code:
\* the polling attempts ran out ("timeout"), the backend answered with a
\* terminal negative response ("failed"), or rate limiting or transport
\* errors ended it ("unavailable").
ErrorKinds == {"timeout", "failed", "unavailable"}

IdlePoller ==
    [pc |-> "idle", attempt |-> 0, polls |-> 0, sleeps |-> 0, result |-> "none",
     running |-> 0, waits |-> 0, last |-> "none",
     trig_attempt |-> 0, sent |-> 0, limited |-> 0, backoff |-> <<>>,
     poll_errors |-> 0, kind |-> "none"]

\* Backoff growing by one second per attempt instead of doubling.
BackoffLinear(attempt) == attempt + 1

\* wait_time = 2 ** attempt (attempt counts from 0).
Backoff(attempt) == 2 ^ attempt

\* MoreTriggers off by one: range(self.retries + 1).
MoreTriggersOffByOne(a) == a <= Retries

\* for attempt in range(self.retries): the loop goes on while attempts are left.
MoreTriggers(a) == a < Retries

\* One iteration of the trigger loop (lines 49-98): the POST and the handling
\* of its answer.  A 429 always sleeps and continues; a transport error
\* sleeps and continues unless it was the last attempt; a 200 with a
\* snapshot_id hands over to _wait_for_results; everything else ends the
\* scrape with None.
Trigger(resp) ==
    /\ poller.pc = "trigger"
    /\ LET a == poller.trig_attempt
           retry == \/ resp = "rate_limited"
                    \/ resp \in TransportErrors /\ a < Retries - 1
           goes_on == retry /\ MoreTriggers(a + 1) IN
       poller' = [poller EXCEPT
                     !.sent = @ + 1,
                     !.trig_attempt = IF retry THEN a + 1 ELSE @,
                     !.limited = IF resp = "rate_limited" THEN @ + 1 ELSE @,
                     !.backoff = IF retry THEN Append(@, Backoff(a)) ELSE @,
                     !.last = resp,
                     !.pc = IF resp = "snapshot" THEN "polling"
                            ELSE IF goes_on THEN "trigger" ELSE "returned",
                     !.kind = IF resp = "snapshot" \/ goes_on THEN "none"
                              ELSE IF resp \in {"no_snapshot", "error_status"} THEN "failed"
                              ELSE "unavailable"]
    /\ UNCHANGED <<store, logs, runs, batch, call>>

\* MoreAttempts off by one: range(max_attempts + 1).
MoreAttemptsOffByOne(a) == a <= MaxAttempts

\* for attempt in range(max_attempts): the loop goes on while attempts are left.
MoreAttempts(a) == a < MaxAttempts

\* PollOutcome as it would be if a "running" body were taken for an error.
PollOutcomeRunningStops(resp) ==
    IF resp \in SuccessShapes THEN "return"
    ELSE IF resp \in WaitShapes \ {"running"} THEN "sleep"
    ELSE IF resp = "unrecognized" THEN "next"
    ELSE "stop"

\* What one answer does to the loop (lines 126-160): "return" the normalized
\* document, "sleep" 10 s and continue, "next" iteration at once (a 200 body
\* of no known shape matches no branch), or "stop" (break, or the outer except).
PollOutcome(resp) ==
    IF resp \in SuccessShapes THEN "return"
    ELSE IF resp \in WaitShapes THEN "sleep"
    ELSE IF resp = "unrecognized" THEN "next"
    ELSE "stop"

\* One iteration of the polling loop: the GET and the handling of its answer.
\* When no attempt is left the loop ends and the call returns None (line 163).
Poll(resp) ==
    /\ poller.pc = "polling"
    /\ LET o == PollOutcome(resp)
           a == poller.attempt + 1
           goes_on == o \in {"sleep", "next"} /\ MoreAttempts(a) IN
       poller' = [poller EXCEPT
                     !.polls = @ + 1,
                     !.attempt = IF o \in {"sleep", "next"} THEN a ELSE @,
                     !.sleeps = IF o = "sleep" THEN @ + 1 ELSE @,
                     !.running = IF resp = "running" THEN @ + 1 ELSE @,
                     !.waits = IF resp \in WaitShapes THEN @ + 1 ELSE @,
                     !.last = resp,
                     !.poll_errors = IF resp = "exception" THEN @ + 1 ELSE @,
                     !.pc = IF goes_on THEN "polling" ELSE "returned",
                     !.result = IF o = "return" THEN "data" ELSE "none",
                     !.kind = IF goes_on THEN "none"
                              ELSE IF o = "return" THEN "data"
                              ELSE IF resp = "exception" THEN "unavailable"
                              ELSE IF resp = "error_status" THEN "failed"
                              ELSE "timeout"]
    /\ UNCHANGED <<store, logs, runs, batch, call>>

\* What scrape_linkedin_profile hands to its caller: the normalized document,
\* or None on every exit without one (lines 69, 98, 102, 163 and 167).
ScrapeValue(kind) == IF kind = "data" THEN "data" ELSE "none"

\* What the Orchestrator records for a scrape that returned v: the status
\* and message of the audit row written by _scrape_linkedin_profile, and the
\* step and message of the error result (lines 61-64 and 155-161).
ScrapeRecord(v) ==
    IF v = "data"
    THEN [status |-> "completed", message |-> "LinkedIn scraping successful",
          failed_step |-> "none", error |-> "none"]
    ELSE [status |-> "failed", message |-> "Scraping returned no data",
          failed_step |-> "brightdata_scraping", error |-> "LinkedIn scraping failed"]

\* ------------------------------------------------------ scoring helpers
\* No helper call in progress.
NoCall == [fn |-> "none"]

\* Everything but the helper call is idle.
Quiet ==
    /\ processing_status = [p \in Pid |-> "pending"]
    /\ linkedin_profile = [p \in Pid |-> TRUE]
    /\ final_score = [p \in Pid |-> Null]
    /\ ranking = [p \in Pid |-> Null]
    /\ completed_seq = <<>>
    /\ logs = [r \in RunId |-> <<>>]
    /\ runs = [r \in RunId |-> NoRun]
    /\ batch = NoBatch
    /\ poller = IdlePoller

\* --- strings: a str is a TLA+ string, None is Null, str s is Some(s)
UpperLetters == "ABCDEFGHIJKLMNOPQRSTUVWXYZ"
LowerLetters == "abcdefghijklmnopqrstuvwxyz"
CharAt(s, i) == SubSeq(s, i, i)
IsUpperChar(c) == \E i \in 1..Len(UpperLetters) : CharAt(UpperLetters, i) = c
IsLowerChar(c) == \E i \in 1..Len(LowerLetters) : CharAt(LowerLetters, i) = c
LetterIndex(letters, c) == CHOOSE i \in 1..Len(letters) : CharAt(letters, i) = c

LowerChar(c) ==
    IF IsUpperChar(c) THEN CharAt(LowerLetters, LetterIndex(UpperLetters, c)) ELSE c
UpperChar(c) ==
    IF IsLowerChar(c) THEN CharAt(UpperLetters, LetterIndex(LowerLetters, c)) ELSE c

RECURSIVE StrLower(_)
\* str.lower()
StrLower(s) ==
    IF Len(s) = 0 THEN "" ELSE LowerChar(CharAt(s, 1)) \o StrLower(SubSeq(s, 2, Len(s)))

\* sub in s
StrIn(sub, s) ==
    \E i \in 0..(Len(s) - Len(sub)) : SubSeq(s, i + 1, i + Len(sub)) = sub
\* s.startswith(pre), s.endswith(suf)
StartsWith(s, pre) == Len(pre) <= Len(s) /\ SubSeq(s, 1, Len(pre)) = pre
EndsWith(s, suf) == Len(suf) <= Len(s) /\ SubSeq(s, Len(s) - Len(suf) + 1, Len(s)) = suf
\* any(k in s for k in keywords)
AnyIn(keywords, s) == \E i \in DOMAIN keywords : StrIn(keywords[i], s)

\* The same string with the letter at position i in the other case.
ToggleCase(s, i) ==
    LET c == CharAt(s, i) IN
    SubSeq(s, 1, i - 1) \o (IF IsUpperChar(c) THEN LowerChar(c) ELSE UpperChar(c))
        \o SubSeq(s, i + 1, Len(s))

RECURSIVE JoinWords(_)
\* " ".join(ws)
JoinWords(ws) ==
    IF Len(ws) = 0 THEN ""
    ELSE IF Len(ws) = 1 THEN ws[1]
    ELSE ws[1] \o " " \o JoinWords(Tail(ws))

\* The strings made of at most n of the given words, single spaces between.
Phrases(words, n) == {JoinWords(ws) : ws \in UNION {[1..k -> words] : k \in 0..n}}

\* --- _resolve_company_tier
tier_a ==
    <<"google", "apple", "meta", "facebook", "amazon", "netflix", "microsoft",
      "nvidia", "openai", "anthropic">>
tier_a_minus ==
    <<"uber", "airbnb", "stripe", "spotify", "twitter", "x corp", "tesla", "spacex",
      "palantir">>
tier_b ==
    <<"oracle", "salesforce", "adobe", "intel", "ibm", "cisco", "vmware", "snowflake",
      "databricks", "atlassian">>
tier_c == <<"startup", "consulting", "accenture", "deloitte", "pwc", "kpmg", "ey">>

\* _resolve_company_tier as it would be without lower-casing the name.
ResolveCaseSensitive(company_name) ==
    IF company_name = Null \/ company_name = Some("") \/ company_name = Some("N/A") THEN "D"
    ELSE LET company_lower == company_name[1] IN
         IF AnyIn(tier_a, company_lower) THEN "A"
         ELSE IF AnyIn(tier_a_minus, company_lower) THEN "A-"
         ELSE IF AnyIn(tier_b, company_lower) THEN "B"
         ELSE IF AnyIn(tier_c, company_lower) THEN "C"
         ELSE "D"

\* Lines 730-756: a missing, empty or "N/A" name is D; otherwise the first
\* tier, from A down, one of whose substrings occurs in the lower-cased name.
ResolveCompanyTier(company_name) ==
    IF company_name = Null \/ company_name = Some("") \/ company_name = Some("N/A") THEN "D"
    ELSE LET company_lower == StrLower(company_name[1]) IN
         IF AnyIn(tier_a, company_lower) THEN "A"
         ELSE IF AnyIn(tier_a_minus, company_lower) THEN "A-"
         ELSE IF AnyIn(tier_b, company_lower) THEN "B"
         ELSE IF AnyIn(tier_c, company_lower) THEN "C"
         ELSE "D"

\* The company names tried: phrases of these words, the placeholder, and None.
CompanyWords == {"Google", "Inc", "random", "startup", "LLC", "Uber"}
CompanyNames ==
    {Null, Some("N/A"), Some("n/a")} \cup {Some(s) : s \in Phrases(CompanyWords, MaxWords)}

\* No name tried is longer than this (the longest word has 7 letters).
MaxNameLen == 8 * MaxWords

\* A call of _resolve_company_tier: its argument, what it returned, and what
\* the first call returned for the name before any change of letter case.
ResolveInit ==
    /\ Quiet
    /\ \E n \in CompanyNames :
          call = [fn |-> "resolve", company_name |-> n, out |-> "none",
                  first_out |-> "none", toggles |-> 0]

Resolve ==
    /\ call.fn = "resolve" /\ call.out = "none"
    /\ call' = [call EXCEPT !.out = ResolveCompanyTier(call.company_name),
                            !.first_out = ResolveCompanyTier(call.company_name)]
    /\ UNCHANGED <<store, logs, runs, batch, poller>>

\* The call repeated with one letter of the name in the other case.
ResolveRecased(i) ==
    /\ call.fn = "resolve" /\ call.out # "none"
    /\ call.company_name # Null
    /\ call.toggles < MaxToggles
    /\ i \in 1..Len(call.company_name[1])
    /\ LET n == Some(ToggleCase(call.company_name[1], i)) IN
       call' = [call EXCEPT !.company_name = n, !.out = ResolveCompanyTier(n),
                            !.toggles = @ + 1]
    /\ UNCHANGED <<store, logs, runs, batch, poller>>

ResolveNext ==
    \/ Resolve
    \/ \E i \in 1..MaxNameLen : ResolveRecased(i)

SpecResolve == ResolveInit /\ [][ResolveNext]_vars

\* --- classify_seniority_level
vp_keywords ==
    <<"vp of", "vp ", "vice president", "svp", "senior vice president", "evp",
      "executive vice president", "chief technology officer", "chief executive officer",
      "chief financial officer", "chief operating officer", "chief marketing officer",
      "cto", "ceo", "cfo", "coo", "cmo", "head of engineering", "head of product",
      "head of data", "head of ai", "head of ml", "founder", "co-founder", "cofounder">>
executive_keywords ==
    <<"director", "senior director", "managing director", "executive director",
      "principal", "senior principal", "distinguished", "fellow", "architect", "lead",
      "team lead", "tech lead", "engineering manager", "senior manager", "group manager",
      "program manager", "senior program manager">>
senior_keywords ==
    <<"senior", "sr.", "staff", "senior staff", "specialist", "senior specialist",
      "consultant", "senior consultant", "expert", "senior expert">>

\* len(s.split()): the number of maximal runs of non-blank characters.
WordCount(s) ==
    Cardinality({i \in 1..Len(s) :
                    CharAt(s, i) # " " /\ (i = 1 \/ CharAt(s, i - 1) = " ")})

\* Lines 63-66: the keyword is the whole title, or occurs in it between
\* blanks, at its start before a blank, or at its end after a blank.
VpMatch(keyword, title_lower) ==
    \/ keyword = title_lower
    \/ StrIn(" " \o keyword \o " ", " " \o title_lower \o " ")
    \/ StartsWith(title_lower, keyword \o " ")
    \/ EndsWith(title_lower, " " \o keyword)

\* VpSkipped as it would be without the single-word rule of lines 73-74.
VpSkippedPresidentOnly(keyword, job_title, title_lower) ==
    /\ keyword = "president"
    /\ ~StrIn("vice", title_lower) /\ ~StrIn("senior", title_lower)

\* Lines 69-74: the matches the loop skips with continue.
VpSkipped(keyword, job_title, title_lower) ==
    \/ /\ keyword = "president"
       /\ ~StrIn("vice", title_lower) /\ ~StrIn("senior", title_lower)
    \/ /\ WordCount(job_title) = 1
       /\ keyword \notin {"cto", "ceo", "cfo", "coo", "cmo", "founder"}

\* classify_seniority_level as it would be without the guard of lines 32-33:
\* None has no lower().
ClassifyWithoutGuard(job_title, company) ==
    IF job_title = Null THEN <<"raised", 0>>
    ELSE LET title_lower == StrLower(job_title[1]) IN
         IF \E i \in DOMAIN vp_keywords :
               VpMatch(vp_keywords[i], title_lower)
                   /\ ~VpSkipped(vp_keywords[i], job_title[1], title_lower)
         THEN <<"VP", IF AnyIn(<<"cto", "ceo", "founder", "chief">>, title_lower) THEN 10 ELSE 9>>
         ELSE <<"Junior", 2>>

\* classify_seniority_level: the level and the score of the returned tuple.
\* The company argument is not used by the code.
ClassifySeniorityLevel(job_title, company) ==
    IF job_title = Null \/ job_title = Some("") THEN <<"Junior", 2>>
    ELSE LET title_lower == StrLower(job_title[1]) IN
         IF \E i \in DOMAIN vp_keywords :
               VpMatch(vp_keywords[i], title_lower)
                   /\ ~VpSkipped(vp_keywords[i], job_title[1], title_lower)
         THEN <<"VP", IF AnyIn(<<"cto", "ceo", "founder", "chief">>, title_lower) THEN 10 ELSE 9>>
         ELSE IF AnyIn(executive_keywords, title_lower)
         THEN <<"Executive",
                IF AnyIn(<<"director", "principal", "distinguished">>, title_lower) THEN 8 ELSE 7>>
         ELSE IF AnyIn(senior_keywords, title_lower)
         THEN <<"Senior", IF StrIn("staff", title_lower) THEN 6
                          ELSE IF StrIn("senior", title_lower) THEN 5 ELSE 4>>
         ELSE <<"Junior", 2>>

\* The titles and companies tried.
TitleWords ==
    {"Founder", "CTO", "SVP", "VP", "of", "Senior", "Software", "Engineer", "Director",
     "President", "Cofounder"}
JobTitles == {Null} \cup {Some(s) : s \in Phrases(TitleWords, MaxWords)}
Companies == {Null, Some(""), Some("Google Inc"), Some("random startup LLC")}

ClassifyInit ==
    /\ Quiet
    /\ \E t \in JobTitles, c \in Companies :
          call = [fn |-> "classify", job_title |-> t, company |-> c, out |-> <<>>]

Classify ==
    /\ call.fn = "classify" /\ call.out = <<>>
    /\ call' = [call EXCEPT !.out = ClassifySeniorityLevel(call.job_title, call.company)]
    /\ UNCHANGED <<store, logs, runs, batch, poller>>

ClassifyNext == Classify

SpecClassify == ClassifyInit /\ [][ClassifyNext]_vars

\* --- analyze_social_influence
\* LogThreshold[k] is the least integer x with 1.5 + 2.5 * log10(x) >= k, that
\* is with x^5 >= 10^(2k - 3): the ceiling of 10^((2k - 3) / 5).
LogThreshold == <<1, 2, 4, 10, 26, 64, 159, 399, 1000, 2512>>

\* int(min(10, max(0, 1.5 + 2.5 * math.log10(x)))) for an integer x >= 1:
\* the largest k in 0..10 that 1.5 + 2.5 * log10(x) reaches.
IntLogScore(x) ==
    CHOOSE k \in 0..10 :
        /\ k = 0 \/ x >= LogThreshold[k]
        /\ k = 10 \/ x < LogThreshold[k + 1]

\* Lines 130-159: the step function of the reach that names the level.
TierScore(reach) ==
    IF reach >= 50000 THEN 10
    ELSE IF reach >= 25000 THEN 9
    ELSE IF reach >= 10000 THEN 8
    ELSE IF reach >= 5000 THEN 7
    ELSE IF reach >= 2500 THEN 6
    ELSE IF reach >= 1000 THEN 5
    ELSE IF reach >= 500 THEN 4
    ELSE IF reach >= 100 THEN 3
    ELSE IF reach > 0 THEN 2
    ELSE 1

\* ReachScore as it would be if the level's step function were returned.
ReachScoreFromTier(reach) == TierScore(reach)

\* Lines 120-127 and 165: the integer part of the logarithmic score, 0 for
\* no reach.
ReachScore(reach) == IF reach > 0 THEN IntLogScore(reach + 50) ELSE 0

\* basic_info.get(key, 0) or 0
CountOrZero(v) == IF v = Null THEN 0 ELSE v[1]

\* reach_raw = linkedin_followers + linkedin_connections
ReachRaw(followers_count, connections_count) ==
    CountOrZero(followers_count) + CountOrZero(connections_count)

\* A call of analyze_social_influence: the two counts (a missing or null
\* count is Null), the score returned, and the score an earlier call returned
\* for a smaller reach.
ReachInit ==
    /\ Quiet
    /\ \E f \in Nullable(0..MaxFollowers), c \in Nullable(0..MaxConnections) :
          call = [fn |-> "reach", followers_count |-> f, connections_count |-> c,
                  out |-> Null, level |-> Null, smaller_out |-> Null]

AnalyzeSocialInfluence ==
    /\ call.fn = "reach" /\ call.out = Null
    /\ LET reach == ReachRaw(call.followers_count, call.connections_count) IN
       call' = [call EXCEPT !.out = Some(ReachScore(reach)), !.level = Some(TierScore(reach))]
    /\ UNCHANGED <<store, logs, runs, batch, poller>>

\* The call repeated for the profile with one more follower or connection.
AnalyzeGrown(which) ==
    /\ call.fn = "reach" /\ call.out # Null /\ call.smaller_out = Null
    /\ LET f == IF which = "followers" THEN Some(CountOrZero(call.followers_count) + 1)
                 ELSE call.followers_count
           c == IF which = "connections" THEN Some(CountOrZero(call.connections_count) + 1)
                 ELSE call.connections_count
           reach == ReachRaw(f, c) IN
       /\ CountOrZero(f) <= MaxFollowers /\ CountOrZero(c) <= MaxConnections
       /\ call' = [call EXCEPT !.followers_count = f, !.connections_count = c,
                               !.smaller_out = call.out,
                               !.out = Some(ReachScore(reach)),
                               !.level = Some(TierScore(reach))]
    /\ UNCHANGED <<store, logs, runs, batch, poller>>

ReachNext ==
    \/ AnalyzeSocialInfluence
    \/ \E which \in {"followers", "connections"} : AnalyzeGrown(which)

SpecReach == ReachInit /\ [][ReachNext]_vars

\* --- JSON values, as far as the helpers look at them
\* A value under a key of a JSON document: the key is absent, or the value
\* is null, an int, a str, a list (of which only the length matters) or a
\* dict (a record of the values under the keys the code reads).
Absent == [t |-> "absent"]
NullV == [t |-> "null"]
IntV(n) == [t |-> "int", n |-> n]
StrV(s) == [t |-> "str", s |-> s]
ListV(k) == [t |-> "list", len |-> k]
\* A list given by the types of its elements, where the code iterates it.
ArrayV(items) == [t |-> "array", items |-> items]

\* bool(v); d.get(key) of an absent key is None.
Truthy(v) ==
    CASE v.t \in {"absent", "null"} -> FALSE
      [] v.t = "int" -> v.n # 0
      [] v.t = "str" -> v.s # ""
      [] v.t = "list" -> v.len > 0
      [] v.t = "array" -> Len(v.items) > 0
      [] OTHER -> TRUE    \* a dict: where the code tests one, {} and a dict
                          \* without the keys read give the same result

\* v or default
OrElse(v, default) == IF Truthy(v) THEN v ELSE default

\* --- _compute_judge_auto_suggestion
senior_terms ==
    <<"founder", "co-founder", "principal", "staff", "lead", "head", "director",
      "professor", "research scientist">>
tier_companies == <<"Google", "Meta", "Apple", "Microsoft", "Amazon", "NVIDIA">>
max_points == 6

\* The dict {}.
EmptyDict == [t |-> "dict"]

\* a + b raises a TypeError unless both are ints, both strs or both lists.
CanAdd(a, b) == a.t = b.t /\ a.t \in {"int", "str", "list"}

RECURSIVE JoinReasons(_)
\* ", ".join(reasons)
JoinReasons(reasons) ==
    IF Len(reasons) = 0 THEN ""
    ELSE IF Len(reasons) = 1 THEN reasons[1]
    ELSE reasons[1] \o ", " \o JoinReasons(Tail(reasons))

\* d.get(key) on a dict: None (Absent) for a key the dict does not have.
Get(d, key) == IF key \in DOMAIN d THEN d[key] ELSE Absent

\* len(v) raises a TypeError unless v is a str, a list or a dict.
Sized(v) == v.t \in {"str", "list", "array", "dict"}

\* The try block of lines 247-304 on the document d.  The reasons are written
\* with >= for the source's sign.  raised is TRUE when a
\* statement of it raises (an AttributeError of .get or .lower on a value
\* that has none, a TypeError of +, >=, in or len on a value of the wrong
\* type); otherwise score is the number of sixths of min(1.0, max(0.0,
\* score_points / max_points)) and reason the joined reasons.  score_points
\* is the local variable of that name when the block returns, kept with the
\* result so that it can be observed.
JudgeBody(d) ==
    LET doc == IF Truthy(d) THEN d ELSE EmptyDict
        basic == IF doc.t = "dict" /\ Get(doc, "basic_info").t # "absent"
                 THEN Get(doc, "basic_info") ELSE EmptyDict
        acc == IF doc.t = "dict" /\ Get(doc, "accomplishments").t # "absent"
               THEN Get(doc, "accomplishments") ELSE EmptyDict
        isdicts == doc.t = "dict" /\ basic.t = "dict" /\ acc.t = "dict"
        headline == OrElse(Get(basic, "headline"), StrV(""))
        current_company == OrElse(Get(basic, "current_company"), StrV(""))
        connections == OrElse(Get(basic, "linkedin_connections"), IntV(0))
        followers == OrElse(Get(basic, "linkedin_followers"), IntV(0))
        community ==
            <<OrElse(Get(acc, "memberships"), ListV(0)),
              OrElse(Get(acc, "professional_memberships"), ListV(0)),
              OrElse(Get(acc, "organizations"), ListV(0)),
              OrElse(Get(acc, "volunteer_experience"), ListV(0))>>
        visibility ==
            <<OrElse(Get(acc, "awards"), ListV(0)),
              OrElse(Get(acc, "publications"), ListV(0)),
              OrElse(Get(acc, "projects"), ListV(0))>>
        recs == OrElse(Get(basic, "recommendations_count"), IntV(0))
        raised ==
            \/ ~isdicts
            \/ headline.t # "str"
            \/ ~CanAdd(connections, followers)
            \/ connections.t # "int"
            \/ Truthy(current_company) /\ ~Sized(current_company)
            \/ /\ \E i \in 1..4 : Truthy(community[i])
               /\ \E i \in 1..4 : ~Sized(community[i])
            \/ recs.t # "int"
        total == connections.n + followers.n
        p_title == IF AnyIn(senior_terms, StrLower(headline.s)) THEN <<"senior title">> ELSE <<>>
        p_network == IF total >= 7000 THEN <<"large network >=7k">>
                     ELSE IF total >= 3000 THEN <<"network >=3k">> ELSE <<>>
        p_company == IF current_company.t = "str" /\ Truthy(current_company)
                          /\ AnyIn(tier_companies, current_company.s)
                     THEN <<"tier-1 company">> ELSE <<>>
        \* a truthy str, list or dict has a length of at least 1
        p_community == IF \E i \in 1..4 : Truthy(community[i])
                       THEN <<"community roles/memberships">> ELSE <<>>
        p_visibility == IF \E i \in 1..3 : Truthy(visibility[i])
                        THEN <<"awards/publications/projects">> ELSE <<>>
        p_recs == IF recs.n >= 5 THEN <<">=5 recommendations">> ELSE <<>>
        reasons == p_title \o p_network \o p_company \o p_community \o p_visibility \o p_recs
        \* one point for each reason, and a second one for the large network
        score_points == Len(reasons) + (IF total >= 7000 THEN 1 ELSE 0)
    IN  IF raised THEN [raised |-> TRUE, score |-> Null, reason |-> "", score_points |-> Null]
        ELSE [raised |-> FALSE, score_points |-> Some(score_points),
              score |-> Some(IF score_points > max_points THEN max_points ELSE score_points),
              reason |-> JoinReasons(reasons)]

\* Except as it would be without the catch-all clause.
ExceptNothing(res) == res

\* Lines 305-306: except Exception: return None, "".
Except(res) ==
    IF res.raised
    THEN [raised |-> FALSE, score |-> Null, reason |-> "", score_points |-> Null]
    ELSE res

\* _compute_judge_auto_suggestion(linkedin_data, assessment); the assessment
\* argument is not read.
ComputeJudgeAutoSuggestion(d) == Except(JudgeBody(d))

\* auto_score >= 0.6, the score being score / max_points.
AtLeastSixTenths(score) == score # Null /\ 10 * score[1] >= 6 * max_points

\* JudgeStatusAfter as it would be if the suggestion overrode a decision
\* already made.
JudgeStatusOverridden(judge_status, auto_score) ==
    IF AtLeastSixTenths(auto_score) THEN Some("candidate") ELSE Some("unknown")

\* Lines 230-232: only an unset or "unknown" manual-review status is set,
\* to "candidate" for an auto score of at least 0.6 and to "unknown" otherwise.
JudgeStatusAfter(judge_status, auto_score) ==
    IF judge_status = Null \/ judge_status = Some("") \/ judge_status = Some("unknown")
    THEN (IF AtLeastSixTenths(auto_score) THEN Some("candidate") ELSE Some("unknown"))
    ELSE judge_status

\* The documents tried.
HeadlineValues == {Absent, NullV, StrV("Staff Engineer"), StrV("engineer"), IntV(5)}
CompanyValues == {Absent, StrV("Google"), StrV("Acme"), IntV(5)}
ConnectionValues == {Absent, IntV(0), IntV(3000), IntV(7000), StrV("5000")}
FollowerValues == {Absent, IntV(4000), StrV("5000")}
RecommendationValues == {Absent, IntV(4), IntV(5), StrV("5")}
ListValues == {Absent, ListV(0), ListV(1), IntV(5)}
BasicValues ==
    {Absent, NullV, ListV(1)} \cup
    [t : {"dict"}, headline : HeadlineValues, current_company : CompanyValues,
     linkedin_connections : ConnectionValues, linkedin_followers : FollowerValues,
     recommendations_count : RecommendationValues]
AccValues ==
    {Absent, NullV, ListV(1)} \cup [t : {"dict"}, memberships : ListValues, awards : ListValues]
Documents ==
    {NullV, ListV(1), EmptyDict} \cup [t : {"dict"}, basic_info : BasicValues, accomplishments : AccValues]
JudgeStatuses ==
    {Null, Some(""), Some("unknown"), Some("candidate"), Some("not_candidate")}

\* The part of _save_results that computes the suggestion and sets the
\* manual-review fields (lines 225-232), on a profile whose judge_status is
\* any of the values the column can hold.
JudgeInit ==
    /\ Quiet
    /\ \E d \in Documents, js \in JudgeStatuses :
          call = [fn |-> "judge", linkedin_data |-> d, judge_status_before |-> js,
                  judge_status |-> js, done |-> FALSE,
                  out |-> [raised |-> FALSE, score |-> Null, reason |-> "",
                           score_points |-> Null]]

SaveJudgeSuggestion ==
    /\ call.fn = "judge" /\ ~call.done
    /\ LET res == ComputeJudgeAutoSuggestion(call.linkedin_data) IN
       call' = [call EXCEPT !.out = res, !.done = TRUE,
                            !.judge_status = IF res.raised THEN @
                                             ELSE JudgeStatusAfter(@, res.score)]
    /\ UNCHANGED <<store, logs, runs, batch, poller>>

JudgeNext == SaveJudgeSuggestion

SpecJudge == JudgeInit /\ [][JudgeNext]_vars

\* --- _normalize_linkedin_data
\* d.get(key, default): the default only for an absent key.
GetOr(v, default) == IF v.t = "absent" THEN default ELSE v

NoAccomplishments ==
    [t |-> "dict", publications |-> ArrayV(<<>>), patents |-> ArrayV(<<>>),
     awards |-> ArrayV(<<>>), certifications |-> ArrayV(<<>>),
     languages |-> ArrayV(<<>>), projects |-> ArrayV(<<>>)]

\* for x in v: x.get(...) raises unless v is a list of dicts (of dicts and
\* strs where strs are handled apart).
IterRaises(v, accepted) ==
    Truthy(v) /\ (v.t # "array" \/ \E i \in 1..Len(v.items) : v.items[i] \notin accepted)

\* The entries appended for the elements of v.
Appended(v) == IF Truthy(v) THEN ArrayV([i \in 1..Len(v.items) |-> "dict"]) ELSE ArrayV(<<>>)

\* NormalizedBasicInfo as it would be if the two counts were stored under
\* the names the suitability heuristic reads.
NormalizedBasicInfoJudgeKeys(raw_data) ==
    [t |-> "dict",
     name |-> GetOr(raw_data.name, StrV("")),
     headline |-> IF Truthy(raw_data.current_company)
                  THEN GetOr(raw_data.current_company.name, StrV(""))
                  ELSE StrV(""),
     linkedin_connections |-> GetOr(raw_data.connections, IntV(0)),
     linkedin_followers |-> GetOr(raw_data.followers, IntV(0)),
     current_company |-> GetOr(raw_data.current_company_name, StrV(""))]

\* Lines 183-193: the basic_info block.  location, summary, profile_url and
\* profile_image are left out; they are read from the payload as name is.
NormalizedBasicInfo(raw_data) ==
    [t |-> "dict",
     name |-> GetOr(raw_data.name, StrV("")),
     headline |-> IF Truthy(raw_data.current_company)
                  THEN GetOr(raw_data.current_company.name, StrV(""))
                  ELSE StrV(""),
     connections_count |-> GetOr(raw_data.connections, IntV(0)),
     followers_count |-> GetOr(raw_data.followers, IntV(0)),
     current_company |-> GetOr(raw_data.current_company_name, StrV(""))]

\* The try block of lines 179-267 on the payload raw_data; a key of the
\* result is present when its value is not Absent.
NormalizeBody(raw_data) ==
    LET isdict == raw_data.t = "dict"
        experience_data == OrElse(raw_data.experience, ArrayV(<<>>))
        education_data == OrElse(raw_data.education, ArrayV(<<>>))
        accomplishments == raw_data.accomplishments    \* absent: {}, not truthy
        recommendations_data == OrElse(raw_data.recommendations, ArrayV(<<>>))
        raised ==
            \/ ~isdict
            \/ Truthy(raw_data.current_company) /\ raw_data.current_company.t # "dict"
            \/ IterRaises(experience_data, {"dict"})
            \/ IterRaises(education_data, {"dict"})
            \/ Truthy(accomplishments) /\ accomplishments.t # "dict"
            \/ IterRaises(recommendations_data, {"dict", "str"})
    IN  IF raised
        THEN [raised |-> TRUE, basic_info |-> Absent, experience |-> Absent,
              education |-> Absent, skills |-> Absent, accomplishments |-> Absent,
              recommendations |-> Absent, raw_data |-> Absent,
              \* str(e), without the name of the type it begins with
              normalization_error |->
                  IF isdict /\ ~(Truthy(raw_data.current_company)
                                   /\ raw_data.current_company.t # "dict")
                     /\ Truthy(experience_data) /\ experience_data.t # "array"
                  THEN StrV("object is not iterable")
                  ELSE StrV("object has no attribute 'get'")]
        ELSE [raised |-> FALSE,
              basic_info |-> NormalizedBasicInfo(raw_data),
              experience |-> Appended(experience_data),
              education |-> Appended(education_data),
              skills |-> GetOr(raw_data.skills, ArrayV(<<>>)),
              accomplishments |->
                  IF Truthy(accomplishments)
                  THEN [NoAccomplishments EXCEPT
                          !.publications = GetOr(accomplishments.publications, ArrayV(<<>>)),
                          !.awards = GetOr(accomplishments.awards, ArrayV(<<>>))]
                  ELSE NoAccomplishments,
              recommendations |-> Appended(recommendations_data),
              raw_data |-> raw_data,
              normalization_error |-> Absent]

\* NormalizeExcept as it would be without the catch-all clause.
NormalizeExceptNothing(raw_data, res) == res

\* Lines 269-271: except Exception as e: return {"raw_data": raw_data,
\* "normalization_error": str(e)}.
NormalizeExcept(raw_data, res) ==
    IF res.raised
    THEN [res EXCEPT !.raised = FALSE, !.raw_data = raw_data]
    ELSE res

\* _normalize_linkedin_data(raw_data)
NormalizeLinkedinData(raw_data) == NormalizeExcept(raw_data, NormalizeBody(raw_data))

\* The payloads tried.
RawNames == {Absent, NullV, StrV("Ada")}
RawCompanies ==
    {Absent, NullV, StrV("Acme"), [t |-> "dict", name |-> Absent],
     [t |-> "dict", name |-> StrV("Lead Labs")]}
RawCompanyNames == {Absent, StrV("Google"), IntV(5)}
RawCounts == {Absent, IntV(8000)}
RawExperience == {Absent, NullV, ArrayV(<<"dict">>), ArrayV(<<"dict", "str">>), IntV(5)}
RawEducation == {Absent, ArrayV(<<"dict">>), ArrayV(<<"int">>)}
RawSkills == {Absent, NullV, ArrayV(<<"str">>)}
RawSubLists == {Absent, NullV, ArrayV(<<"str">>)}
RawAccomplishments ==
    {Absent, NullV, ListV(1)} \cup
    {[NoAccomplishments EXCEPT !.publications = pu, !.patents = Absent, !.awards = aw,
                               !.certifications = Absent, !.languages = Absent,
                               !.projects = Absent] :
        pu \in {Absent, ArrayV(<<"str">>)}, aw \in RawSubLists}
RawRecommendations == {Absent, NullV, ArrayV(<<"dict", "str">>), ArrayV(<<"dict", "int">>)}

\* The payloads whose list blocks are taken from the given sets.
Payloads(experience, education, skills, recommendations) ==
    {NullV, StrV("not found"), ListV(1)} \cup
    [t : {"dict"}, name : RawNames, current_company : RawCompanies,
     current_company_name : RawCompanyNames, connections : RawCounts, followers : RawCounts,
     experience : experience, education : education, skills : skills,
     accomplishments : RawAccomplishments, recommendations : recommendations]

RawPayloads == Payloads(RawExperience, RawEducation, RawSkills, RawRecommendations)

NormalizeInit ==
    /\ Quiet
    /\ \E r \in RawPayloads :
          call = [fn |-> "normalize", raw_data |-> r, done |-> FALSE, out |-> Absent]

Normalize ==
    /\ call.fn = "normalize" /\ ~call.done
    /\ call' = [call EXCEPT !.out = NormalizeLinkedinData(call.raw_data), !.done = TRUE]
    /\ UNCHANGED <<store, logs, runs, batch, poller>>

NormalizeNext == Normalize

SpecNormalize == NormalizeInit /\ [][NormalizeNext]_vars

\* --- the scraped document on its way to the heuristic
\* The dict _normalize_linkedin_data returned, as a JSON value: the keys of
\* the result that are present.
AsDocument(out) ==
    LET keys == {k \in DOMAIN out \ {"raised"} : out[k].t # "absent"} IN
    [k \in keys \cup {"t"} |-> IF k = "t" THEN "dict" ELSE out[k]]

\* The payloads a snapshot can hold, as far as the heuristic can tell them
\* apart: the list blocks only decide between the normal and the error path.
ScrapedPayloads == Payloads({Absent, ArrayV(<<"dict", "str">>)}, {Absent}, {Absent}, {Absent})

\* A run whose poll returned the payload raw_data for a profile whose
\* judge_status is any of the values the column can hold.
ScrapedInit ==
    /\ Quiet
    /\ \E r \in ScrapedPayloads, js \in JudgeStatuses :
          call = [fn |-> "scraped", pc |-> "poll", raw_data |-> r, linkedin_data |-> Absent,
                  judge_status_before |-> js, judge_status |-> js,
                  out |-> [raised |-> FALSE, score |-> Null, reason |-> "",
                           score_points |-> Null]]

\* _wait_for_results lines 134 and 138: the poller returns the normalized
\* payload, which goes unchanged through scrape_linkedin_profile and
\* _scrape_linkedin_profile to process_profile (line 60).
ScrapedNormalize ==
    /\ call.fn = "scraped" /\ call.pc = "poll"
    /\ call' = [call EXCEPT !.pc = "save",
                            !.linkedin_data = AsDocument(NormalizeLinkedinData(call.raw_data))]
    /\ UNCHANGED <<store, logs, runs, batch, poller>>

\* _save_results lines 225-232 on that document.
ScrapedSave ==
    /\ call.fn = "scraped" /\ call.pc = "save"
    /\ LET res == ComputeJudgeAutoSuggestion(call.linkedin_data) IN
       call' = [call EXCEPT !.pc = "saved", !.out = res,
                            !.judge_status = IF res.raised THEN @
                                             ELSE JudgeStatusAfter(@, res.score)]
    /\ UNCHANGED <<store, logs, runs, batch, poller>>

ScrapedNext == ScrapedNormalize \/ ScrapedSave

SpecScraped == ScrapedInit /\ [][ScrapedNext]_vars

\* -------------------------------------------------------- specifications
Init ==
    /\ processing_status = [p \in Pid |-> "pending"]
    /\ linkedin_profile \in [Pid -> BOOLEAN]
    /\ final_score = [p \in Pid |-> Null]
    /\ ranking = [p \in Pid |-> Null]
    /\ completed_seq = <<>>
    /\ logs = [r \in RunId |-> <<>>]
    /\ runs = [r \in RunId |-> NoRun]
    /\ batch = NoBatch
    /\ poller = IdlePoller
    /\ call = NoCall

\* The steps of the runs in flight.
RunStep ==
    \/ \E r \in RunId, out \in {"data", "none"} : ScrapeReturns(r, out)
    \/ \E r \in RunId, out \in {"ok", "error"}, sc \in Nullable(Scores) :
          /\ out = "error" => sc = Null
          /\ AssessReturns(r, out, sc)
    \/ \E r \in RunId, c \in {"ok", "failed_usable", "failed_poisoned"} : SaveResults(r, c)
    \/ \E r \in RunId : SaveLog(r)
    \/ \E r \in RunId : UpdateRankings(r)
    \/ \E r \in RunId : HandleError(r)
    \/ \E r \in RunId : ErrorLog(r)

\* Invocations of process_profile through the API, in any number up to
\* MaxRuns, on any profiles, one after another or overlapping.
Next ==
    \/ \E p \in Pid : Invoke(p)
    \/ RunStep

Spec == Init /\ [][Next]_vars

\* The same invocations, on ids with and without a row in the store.
LookupNext ==
    \/ \E id \in UnknownIds : InvokeUnknown(id)
    \/ \E p \in Pid : Invoke(p)
    \/ RunStep

SpecLookup == Init /\ [][LookupNext]_vars

\* One process_batch call over any id list and any concurrency ceiling.
BatchNext ==
    \/ \E ids \in BatchLists(MaxRuns), maxc \in 0..MaxLimit : ProcessBatch(ids, maxc)
    \/ \E r \in RunId : BeginQueued(r)
    \/ RunStep
    \/ BatchReturn

SpecBatch == Init /\ [][BatchNext]_vars

\* One process_profiles_sequentially call over any ids and any limit.
SequentialNext ==
    \/ \E ids \in SUBSET Pid, n \in 0..MaxLimit : ProcessProfilesSequentially(ids, n)
    \/ SequentialBegin
    \/ SequentialRaised
    \/ RunStep
    \/ SequentialCollect
    \/ SequentialWake
    \/ SequentialReturn

SpecSequential == Init /\ [][SequentialNext]_vars

\* One _wait_for_results call against an arbitrary backend.
PollerInit ==
    /\ processing_status = [p \in Pid |-> "pending"]
    /\ linkedin_profile = [p \in Pid |-> TRUE]
    /\ final_score = [p \in Pid |-> Null]
    /\ ranking = [p \in Pid |-> Null]
    /\ completed_seq = <<>>
    /\ logs = [r \in RunId |-> <<>>]
    /\ runs = [r \in RunId |-> NoRun]
    /\ batch = NoBatch
    /\ poller = [IdlePoller EXCEPT !.pc = "polling"]
    /\ call = NoCall

PollerNext == \E resp \in Responses : Poll(resp)

SpecPoller == PollerInit /\ [][PollerNext]_vars

\* One scrape_linkedin_profile call against an arbitrary backend: the trigger
\* loop, then the polling loop.
ScrapeInit ==
    /\ processing_status = [p \in Pid |-> "pending"]
    /\ linkedin_profile = [p \in Pid |-> TRUE]
    /\ final_score = [p \in Pid |-> Null]
    /\ ranking = [p \in Pid |-> Null]
    /\ completed_seq = <<>>
    /\ logs = [r \in RunId |-> <<>>]
    /\ runs = [r \in RunId |-> NoRun]
    /\ batch = NoBatch
    /\ poller = [IdlePoller EXCEPT !.pc = "trigger"]
    /\ call = NoCall

ScrapeNext ==
    \/ \E resp \in TriggerResponses : Trigger(resp)
    \/ \E resp \in Responses : Poll(resp)

SpecScrape == ScrapeInit /\ [][ScrapeNext]_vars

\* The same call with every request coming back: each POST and GET is made
\* with the client's timeout, so it answers or raises.
SpecScrapeLive == ScrapeInit /\ [][ScrapeNext]_vars /\ WF_vars(ScrapeNext)

\* ================================================================ claims
NoRunInFlight == \A r \in RunId : runs[r].pc \in {"none", "done"}
Returns(r) == runs[r].pc # "done" /\ runs'[r].pc = "done"
Reranks(r) == runs[r].pc = "rank" /\ runs'[r].pc = "done"
ProfileOf(r) == runs[r].pid

\* Position of profile p in the completion order (0 when it never completed).
CompletedPos(p) ==
    IF \E i \in DOMAIN completed_seq : completed_seq[i] = p
    THEN CHOOSE i \in DOMAIN completed_seq : completed_seq[i] = p
    ELSE 0

\* C1: in every reachable state a profile has a rank only if its status is
\* completed and its final score is not null.
C1_RankOnlyIfCompletedScored ==
    \A p \in Pid :
        ranking[p] # Null => processing_status[p] = "completed" /\ final_score[p] # Null

\* C2: whenever no run is in flight, the ranks of the completed profiles with
\* a score are exactly 1..N, N their number.
C2_RanksDenseWhenQuiescent ==
    NoRunInFlight =>
        {ranking[p] : p \in Eligible} = {Some(i) : i \in 1..Cardinality(Eligible)}

\* C3: a re-rank gives two completed profiles of equal score different ranks,
\* the smaller rank to the one that completed first.
C3_TiesByCompletionOrder ==
    [][\A r \in RunId : Reranks(r) =>
          \A p, q \in Eligible :
              (p # q /\ final_score[p] = final_score[q]) =>
                 /\ ranking'[p] # ranking'[q]
                 /\ CompletedPos(p) < CompletedPos(q) => ranking'[p][1] < ranking'[q][1]]_vars

\* The ranks stored are already what a re-rank of the present store gives.
FreshlyRanked ==
    \E ord \in RankOrders(Eligible) : \A p \in Eligible : ranking[p] = AssignRanks(ord)[p]

\* C4: re-ranking is idempotent: a re-rank of a store that carries the ranks
\* of a re-rank of that same store changes no rank.
C4_RerankIdempotent ==
    [][\A r \in RunId : (Reranks(r) /\ FreshlyRanked) => ranking' = ranking]_vars

\* C5: every invocation returns with the profile's stored status completed or
\* failed, never processing.
C5_ReturnsWithTerminalStatus ==
    [][\A r \in RunId : Returns(r) =>
          processing_status'[ProfileOf(r)] \in {"completed", "failed"}]_vars

\* C6: a run on a profile without a reference returns with status failed,
\* has appended exactly one audit row, a failed one, and has called neither
\* the scraper nor the assessment nor the discovery.
C6_MissingReference ==
    [][\A r \in RunId : (Returns(r) /\ ~linkedin_profile[ProfileOf(r)]) =>
          /\ processing_status'[ProfileOf(r)] = "failed"
          /\ runs'[r].result = "error" /\ runs'[r].failed_step = "linkedin_url"
          /\ Len(logs'[r]) = 1
          /\ logs'[r][1].status = "failed"
          /\ logs'[r][1].profile_id = ProfileOf(r)
          /\ runs'[r].scrape_calls = 0
          /\ runs'[r].assess_calls = 0
          /\ runs'[r].discovery_calls = 0]_vars

C6_Witness ==
    \E r, q \in RunId :
        /\ runs[r].pc = "done" /\ ~runs[r].had_ref
        /\ Len(logs[r]) = 1 /\ processing_status[runs[r].pid] = "failed"
        /\ q < r /\ Len(logs[q]) > 1

\* C7: after k < 18 "running" answers the poller is still polling, a success
\* shape as the next answer makes it return the document on poll k+1, and
\* once it has returned it polls no more.
C7_RunningThenSuccess ==
    /\ (poller.polls >= 1 /\ poller.running = poller.polls /\ poller.polls < MaxAttempts)
          => poller.pc = "polling"
    /\ (poller.pc = "returned" /\ poller.last \in SuccessShapes
            /\ poller.running = poller.polls - 1)
          => (poller.result = "data" /\ ~ENABLED PollerNext)

C7_Witness ==
    /\ poller.pc = "returned" /\ poller.result = "data"
    /\ poller.running = MaxAttempts - 1 /\ poller.polls = MaxAttempts

\* C8: when every answer is "running", 202 or 404 the poller returns after
\* exactly 18 polls without a document, and it never polls a 19th time.
C8_AlwaysRunningTimesOut ==
    /\ poller.polls <= MaxAttempts
    /\ (poller.pc = "returned" /\ poller.waits = poller.polls)
          => (poller.polls = MaxAttempts /\ poller.result = "none")

C8_Witness ==
    /\ poller.pc = "returned" /\ poller.result = "none"
    /\ poller.waits = MaxAttempts /\ poller.running > 0 /\ poller.running < poller.waits

\* C9: during process_batch the runs in flight never exceed the ceiling.
BatchInFlight == {r \in Members : InFlight(r)}

C9_BoundedConcurrency ==
    batch.state = "running" => Cardinality(BatchInFlight) <= batch.limit

C9_Witness ==
    /\ batch.state = "running"
    /\ Cardinality(BatchInFlight) = batch.limit
    /\ batch.limit > 1
    /\ \E r \in Members : runs[r].pc = "queued"

\* What a run's own inputs (reference, scraper answer, assessment answer,
\* outcome of its commit) make of it, whatever the other runs do.
OwnResult(r) ==
    IF ~runs[r].had_ref \/ runs[r].scrape = "none" \/ runs[r].assess = "error" THEN "error"
    ELSE IF runs[r].commit = "ok" THEN "success"
    ELSE IF runs[r].commit = "failed_usable" THEN "error"
    ELSE "error_unhandled"

OwnStep(r) ==
    IF ~runs[r].had_ref THEN "linkedin_url"
    ELSE IF runs[r].scrape = "none" THEN "brightdata_scraping"
    ELSE IF runs[r].assess = "error" THEN "gpt_assessment"
    ELSE IF runs[r].commit = "ok" THEN "none"
    ELSE "general"

OwnStatus(r) ==
    IF OwnResult(r) = "success" THEN "completed"
    ELSE IF OwnResult(r) = "error" THEN "failed"
    ELSE "processing"

\* C10: in a batch every id gets exactly one outcome, decided by its own run
\* alone; a failed run neither blocks the queued ones nor changes another
\* profile's status or result; successful + failed = total.
C10_FailureIsolation ==
    /\ \A r \in Members : runs[r].pc = "done" =>
          /\ runs[r].result = OwnResult(r)
          /\ runs[r].failed_step = OwnStep(r)
          /\ runs[r].result = "success" => runs[r].result_score = runs[r].score
    /\ (batch.state = "running" /\ \E r \in Members : runs[r].pc = "queued")
          => (batch.permits > 0 \/ BatchInFlight # {})
    /\ batch.state = "returned" =>
          /\ \A r \in Members : runs[r].pc = "done" /\ runs[r].result # "none"
          /\ batch.total = Len(batch.members)
          /\ batch.successful + batch.failed = batch.total
          /\ batch.successful = Cardinality({r \in Members : OwnResult(r) = "success"})
          /\ \A r \in Members :
                (\A q \in Members : q # r => runs[q].pid # runs[r].pid)
                   => processing_status[runs[r].pid] = OwnStatus(r)

C10_Witness ==
    /\ batch.state = "returned"
    /\ batch.total = MaxRuns /\ batch.successful = MaxRuns - 1 /\ batch.failed = 1
    /\ batch.limit = 1

\* C11: every run that does not succeed returns a structured error result
\* that names the step that failed.
C11_ErrorsNameFailedStep ==
    \A r \in RunId :
        (runs[r].pc = "done" /\ runs[r].result # "success") =>
            /\ runs[r].result = "error"
            /\ ResultFailedStep(r) \in {Some(s) : s \in Steps}

C13_OneRowPerStepStatus ==
    \A r \in RunId : \A i, j \in DOMAIN logs[r] :
        (i < j) => ~(logs[r][i].step = logs[r][j].step /\ logs[r][i].status = logs[r][j].status)

\* The status changes the state machine allows.
AllowedTransitions ==
    {<<"pending", "processing">>, <<"failed", "processing">>,
     <<"processing", "completed">>, <<"processing", "failed">>}

\* C14: every change of a profile's status is one of pending to processing,
\* failed to processing, processing to completed, processing to failed; in
\* particular a completed profile never changes status.
C14_OneDirectionalStatus ==
    [][\A p \in Pid :
          processing_status'[p] # processing_status[p] =>
              <<processing_status[p], processing_status'[p]>> \in AllowedTransitions]_vars

\* C15: a batch never has two runs for the same profile id in flight at the
\* same time.
C15_OneRunPerProfile ==
    \A r, q \in Members :
        (r # q /\ InFlight(r) /\ InFlight(q)) => runs[r].pid # runs[q].pid

\* C16: rank assignment is a serialized critical section: while a run is in
\* the synchronous stretch that saves and re-ranks, no other run takes a
\* step, and every change of the ranks is the write of one re-rank, all of
\* it computed from the store as that run found it.
C16_RankingSerialized ==
    [][/\ \A r \in RunId :
             runs[r].pc \in SyncPcs => \A q \in RunId \ {r} : runs'[q] = runs[q]
       /\ ranking' # ranking =>
             \E r \in RunId :
                 /\ Reranks(r)
                 /\ \E ord \in RankOrders(Eligible) : ranking' = AssignRanks(ord)]_vars

C16_Witness ==
    \E r, q, s \in Members :
        /\ runs[r].pc = "rank" /\ runs[q].pc = "assessing"
        /\ runs[s].pc = "done" /\ runs[s].result = "success"
        /\ runs[r].pid # runs[s].pid
        /\ ranking[runs[s].pid] # Null

\* C17: the trigger is sent at most 3 times; the waits after rate-limited
\* answers are 1s, then 2s, doubling; when every answer is a 429 the scrape
\* ends after the third with no document and without a single poll.
C17_RateLimitBackoff ==
    /\ poller.sent <= Retries
    /\ \A i \in DOMAIN poller.backoff :
          poller.backoff[i] = IF i = 1 THEN 1 ELSE 2 * poller.backoff[i - 1]
    /\ (poller.sent >= 1 /\ poller.limited = poller.sent) =>
          /\ Len(poller.backoff) = poller.sent
          /\ poller.polls = 0
          /\ poller.sent < Retries => poller.pc = "trigger"
          /\ poller.sent = Retries => (poller.pc = "returned" /\ poller.result = "none")

C17_Witness ==
    /\ poller.pc = "returned" /\ poller.result = "none"
    /\ poller.limited = Retries /\ poller.sent = Retries
    /\ poller.backoff = <<1, 2, 4>> /\ poller.polls = 0

\* C18: a scrape ends on a transport error only after that phase has had as
\* many transport-failed requests as the attempt bound, in the trigger phase
\* and in the polling phase alike.
C18_TransportRetriedInBothPhases ==
    /\ (poller.pc = "returned" /\ poller.polls = 0 /\ poller.last \in TransportErrors)
          => poller.sent = Retries
    /\ (poller.pc = "returned" /\ poller.polls > 0 /\ poller.last = "exception")
          => poller.poll_errors = Retries

\* C19: after a poll answer that is neither a wait shape nor a success shape
\* the poller has returned without a document, so no further poll follows.
C19_OtherAnswerStopsPolling ==
    (poller.polls > 0 /\ poller.last \in {"unrecognized", "error_status"})
        => (poller.pc = "returned" /\ poller.result = "none")

\* C20: what the Orchestrator records for a failed scrape tells the kind of
\* poller error apart: the record of a scrape that ended with one kind
\* differs from the record of every other kind.
C20_ErrorKindRecorded ==
    (poller.pc = "returned" /\ poller.kind \in ErrorKinds) =>
        \A k \in ErrorKinds \ {poller.kind} :
            ScrapeRecord(ScrapeValue(k)) # ScrapeRecord(ScrapeValue(poller.kind))

\* C29: right after a re-rank the completed profiles with a score carry
\* exactly the ranks 1..N, and a strictly higher score has a strictly
\* smaller rank.
C29_RanksDenseAndOrderedAfterRerank ==
    [][\A r \in RunId : Reranks(r) =>
          /\ {ranking'[p] : p \in Eligible} = {Some(i) : i \in 1..Cardinality(Eligible)}
          /\ \A p, q \in Eligible :
                final_score[p][1] > final_score[q][1] => ranking'[p][1] < ranking'[q][1]]_vars

C29_Witness ==
    /\ NoRunInFlight
    /\ \E p, q \in Pid :
          /\ completed_seq = <<p, q>>
          /\ {p, q} \subseteq Eligible
          /\ final_score[q][1] > final_score[p][1]
          /\ ranking[q] = Some(1) /\ ranking[p] = Some(2)

\* The steps that are logged around an awaited or committed operation.
LoggedSteps == {"brightdata_scraping", "gpt_assessment", "save_results"}

\* C30: within a run every completed or failed row of the scrape, assessment
\* and persist steps has a started row of the same step before it.
C30_TerminalRowAfterStarted ==
    \A r \in RunId : \A j \in DOMAIN logs[r] :
        (logs[r][j].step \in LoggedSteps /\ logs[r][j].status \in {"completed", "failed"}) =>
            \E i \in 1..(j - 1) :
                logs[r][i].step = logs[r][j].step /\ logs[r][i].status = "started"

\* C21: resolution is case-insensitive and first-match from the highest
\* tier: "Google Inc" is A, a name with a tier-A substring is A whatever
\* else it contains, and a change of letter case never changes the result.
C21_ResolveCaseInsensitiveFirstMatch ==
    (call.fn = "resolve" /\ call.out # "none") =>
        /\ call.company_name = Some("Google Inc") => call.out = "A"
        /\ (call.company_name # Null /\ AnyIn(tier_a, StrLower(call.company_name[1])))
              => call.out = "A"
        /\ call.out = call.first_out

C21_Witness ==
    /\ call.fn = "resolve" /\ call.out = "A" /\ call.toggles = 1
    /\ call.company_name = Some("Uber GOogle startup")

\* C22: a missing, empty or placeholder name resolves to D, and so does the
\* name of an unknown company such as "random startup LLC".
C22_UnknownCompanyIsD ==
    (call.fn = "resolve" /\ call.out # "none") =>
        /\ call.company_name \in {Null, Some(""), Some("N/A")} => call.out = "D"
        /\ call.company_name = Some("random startup LLC") => call.out = "D"

C24_EmptyTitleIsJunior ==
    (call.fn = "classify" /\ call.out # <<>> /\ call.job_title \in {Null, Some("")})
        => call.out = <<"Junior", 2>>

C24_Witness ==
    /\ call.fn = "classify" /\ call.out = <<"Junior", 2>>
    /\ call.job_title = Null /\ call.company = Some("Google Inc")

\* The title holds a VP-tier keyword as a whole word.
HoldsVpKeyword(title) ==
    \E i \in DOMAIN vp_keywords : VpMatch(vp_keywords[i], StrLower(title))

\* C25: the first tier with a match wins, from the highest down: "Founder"
\* and "CTO" are VP with score 10, "Senior Engineer" is Senior with a score
\* in 4..6, "Software Engineer" is Junior, and a title that holds a VP-tier
\* keyword as a whole word is VP.
C25_HighestTierWins ==
    (call.fn = "classify" /\ call.out # <<>> /\ call.job_title # Null) =>
        /\ call.job_title \in {Some("Founder"), Some("CTO")} => call.out = <<"VP", 10>>
        /\ call.job_title = Some("Senior Engineer")
              => (call.out[1] = "Senior" /\ call.out[2] \in 4..6)
        /\ call.job_title = Some("Software Engineer") => call.out[1] = "Junior"
        /\ HoldsVpKeyword(call.job_title[1]) => call.out[1] = "VP"

\* C26: the suitability heuristic never raises: it returns either a score in
\* [0,1] with a reason string or (None, ""), and on the empty document it
\* returns (0.0, "").
C26_HeuristicNeverRaises ==
    (call.fn = "judge" /\ call.done) =>
        /\ ~call.out.raised
        /\ call.out.score = Null => call.out.reason = ""
        /\ call.out.score # Null => call.out.score[1] \in 0..max_points
        /\ call.linkedin_data = EmptyDict => (call.out.score = Some(0) /\ call.out.reason = "")

C26_Witness ==
    /\ call.fn = "judge" /\ call.done
    /\ call.linkedin_data.t = "dict" /\ Get(call.linkedin_data, "basic_info") = NullV
    /\ call.out.score = Null /\ call.out.reason = "" /\ ~call.out.raised

\* C27: after the results are saved the manual-review status is candidate if
\* it was unset or unknown and the suitability score is at least 0.6, unknown
\* if it was unset or unknown and the score is lower or null, and what it was
\* if it was candidate or not_candidate.
C27_ManualReviewStatus ==
    (call.fn = "judge" /\ call.done) =>
        LET unset == call.judge_status_before \in {Null, Some(""), Some("unknown")}
            high == call.out.score # Null /\ 10 * call.out.score[1] >= 6 * max_points IN
        /\ (unset /\ high) => call.judge_status = Some("candidate")
        /\ (unset /\ ~high) => call.judge_status = Some("unknown")
        /\ ~unset => call.judge_status = call.judge_status_before

C27_Witness ==
    /\ call.fn = "judge" /\ call.done
    /\ call.judge_status_before = Some("not_candidate")
    /\ call.out.score = Some(4)
    /\ call.judge_status = Some("not_candidate")

\* The six blocks of a normalized document.
Blocks(out) ==
    <<out.basic_info, out.experience, out.education, out.skills, out.accomplishments,
      out.recommendations>>

\* A value a block has when the source lacks it: an empty list or null, and
\* for the two dict blocks a dict of such values and empty strings.
EmptyValue(v) ==
    IF v.t = "dict"
    THEN \A k \in DOMAIN v \ {"t"} : v[k].t # "absent" /\ ~Truthy(v[k])
    ELSE v.t # "absent" /\ ~Truthy(v)

\* C28: a document returned by normalization on its normal path has all six
\* blocks as keys, with an empty value for each block the source lacks; when
\* normalization fails the call returns the raw payload with an error marker
\* and does not raise.
C28_NormalizedShapeOrErrorMarker ==
    (call.fn = "normalize" /\ call.done) =>
        LET out == call.out raw == call.raw_data IN
        /\ ~out.raised
        /\ out.normalization_error.t = "absent" =>
              /\ \A i \in 1..6 : Blocks(out)[i].t # "absent"
              /\ (\A k \in {"name", "current_company", "current_company_name",
                             "connections", "followers"} : ~Truthy(raw[k]))
                    => EmptyValue(out.basic_info)
              /\ ~Truthy(raw.experience) => EmptyValue(out.experience)
              /\ ~Truthy(raw.education) => EmptyValue(out.education)
              /\ ~Truthy(raw.skills) => EmptyValue(out.skills)
              /\ ~Truthy(raw.accomplishments) => EmptyValue(out.accomplishments)
              /\ ~Truthy(raw.recommendations) => EmptyValue(out.recommendations)
        /\ out.normalization_error.t # "absent" =>
              /\ out.raw_data = raw
              /\ \A i \in 1..6 : Blocks(out)[i].t = "absent"

C28_Witness ==
    /\ call.fn = "normalize" /\ call.done
    /\ call.raw_data.t = "dict"
    /\ call.raw_data.skills = Absent /\ call.raw_data.experience = NullV
    /\ call.raw_data.recommendations = ArrayV(<<"dict", "str">>)
    /\ call.out.normalization_error = Absent
    /\ call.out.skills = ArrayV(<<>>) /\ call.out.experience = ArrayV(<<>>)
    /\ call.out.recommendations = ArrayV(<<"dict", "dict">>)

\* The rows of processing_logs that run r wrote with the given status.
HasRow(r, status) == \E i \in DOMAIN logs[r] : logs[r][i].status = status

\* C31: the audit row of an outcome is written before the state advances: in
\* no reachable state has a run already stored status completed or failed
\* for its profile while the audit log lacks that run's terminal row (the
\* completed row of save_results, a failed row).
C31_AuditRowBeforeStatus ==
    \A r \in RunId :
        LET p == runs[r].pid IN
        /\ (runs[r].commit = "ok" /\ processing_status[p] = "completed") =>
              \E i \in DOMAIN logs[r] :
                  logs[r][i] = Row(p, "save_results", "completed")
        /\ (runs[r].pc = "error_log" /\ processing_status[p] = "failed") =>
              HasRow(r, "failed")

\* C32: one run never retries a step: it calls the scraper at most once and
\* the assessment at most once, the assessment only after the scraper
\* returned a document, it persists results only after the assessment
\* returned a result without an error tag, and it never calls the discovery
\* collaborator.
C32_NoRetryWithinRun ==
    \A r \in RunId :
        /\ runs[r].scrape_calls <= 1
        /\ runs[r].assess_calls <= 1
        /\ runs[r].assess_calls > 0 => runs[r].scrape = "data"
        /\ runs[r].commit # "none" => runs[r].assess = "ok"
        /\ runs[r].pc \in {"save", "save_log", "rank"} => runs[r].assess = "ok"
        /\ runs[r].discovery_calls = 0

C32_Witness ==
    \E r \in RunId :
        /\ runs[r].pc = "done" /\ runs[r].result = "error"
        /\ runs[r].scrape = "data" /\ runs[r].assess = "error"
        /\ runs[r].scrape_calls = 1 /\ runs[r].assess_calls = 1
        /\ runs[r].commit = "none"

\* C33: between any two consecutive poll requests of one job the poller
\* waits the fixed interval: whenever a further poll is about to be sent,
\* every poll sent so far was followed by a sleep.
C33_WaitBetweenPolls ==
    poller.pc = "polling" => poller.sleeps = poller.polls

\* C34: whatever the backend answers, one scrape_linkedin_profile call ends
\* after at most 3 trigger requests and at most 18 poll requests, and once
\* a job id has been obtained no further trigger request is sent.
C34_ScrapeTerminatesBounded ==
    /\ [](poller.sent <= Retries /\ poller.polls <= MaxAttempts)
    /\ [][poller.pc # "trigger" => poller'.sent = poller.sent]_vars
    /\ <>(poller.pc = "returned")

C34_Witness ==
    /\ poller.pc = "returned"
    /\ poller.sent = Retries
    /\ poller.polls = MaxAttempts

\* C35: in sequential mode the runs never overlap, a delay separates every
\* two consecutive profiles and none follows the last, every selected
\* profile gets exactly one outcome, and successful + failed = total.
C35_SequentialOneAtATime ==
    call.fn = "sequential" =>
        /\ Cardinality({r \in RunId : InFlight(r)}) <= 1
        /\ call.pc = "awaiting" => \A r \in RunId \ {call.run} : ~InFlight(r)
        \* when the i-th profile is up, a sleep followed each of the i-1 before it
        /\ (call.pc \in {"loop", "awaiting", "sleeping"} /\ call.i <= Len(call.profiles)) =>
              call.sleeps = [k \in 1..(call.i - 1) |-> k]
        /\ call.pc = "returned" =>
              /\ Len(call.sleeps) = IF Len(call.profiles) = 0 THEN 0 ELSE Len(call.profiles) - 1
              /\ Len(call.results) = Len(call.profiles)
              /\ \A k \in 1..Len(call.profiles) : call.results[k].profile_id = call.profiles[k]
              /\ call.successful + call.failed = call.total_profiles

\* C36: for every document the points accumulated by the suitability
\* heuristic are an integer between 0 and the fixed maximum 6, and the
\* returned score equals points / 6 (the score is kept in sixths).
C36_PointsWithinMaximum ==
    (call.fn = "judge" /\ call.done /\ call.out.score # Null) =>
        /\ call.out.score_points[1] \in 0..max_points
        /\ call.out.score = call.out.score_points

\* The run that takes the step, if the step is one of a run on profile q.
StepOfRunOn(q) == \E r \in RunId : runs'[r] # runs[r] /\ runs'[r].pid = q

\* C37: a run on profile p writes only p's processing fields and the audit
\* log, plus the rank of completed profiles during a re-rank: the status and
\* the results of a profile change only in a step of a run on that profile,
\* a rank changes only in a re-rank and only for a completed profile, the
\* columns a run only reads (the reference, like the identity and contact
\* columns) never change, and the steps of the batch runner itself (creating
\* the tasks, returning the aggregate) change no profile field.
C37_RunWritesOwnProfileOnly ==
    [][/\ \A q \in Pid :
            /\ (processing_status'[q] # processing_status[q] \/ final_score'[q] # final_score[q])
                  => StepOfRunOn(q)
            /\ ranking'[q] # ranking[q] =>
                  /\ \E r \in RunId : Reranks(r)
                  /\ processing_status[q] = "completed"
       /\ linkedin_profile' = linkedin_profile
       /\ batch'.state # batch.state => UNCHANGED store]_vars

C37_Witness ==
    /\ batch.state = "running"
    /\ \E r \in Members, q \in Pid :
          /\ runs[r].pc = "done" /\ runs[r].result = "success" /\ runs[r].pid # q
          /\ processing_status[q] = "processing"
          /\ final_score[q] = Null /\ ranking[q] = Null
          /\ ranking[runs[r].pid] = Some(1)

\* The keywords a one-word title may match to be VP.
SingleTokenKeywords == {"cto", "ceo", "cfo", "coo", "cmo", "founder"}

\* C38: a one-word title is classified VP only if it is one of the keywords
\* cto, ceo, cfo, coo, cmo or founder; every other one-word title (President,
\* Cofounder, SVP) is not classified VP; a VP result has score 9 or 10.
C38_SingleWordVpOnlyForAcronyms ==
    (call.fn = "classify" /\ call.out # <<>> /\ call.job_title # Null) =>
        /\ (WordCount(call.job_title[1]) = 1 /\ call.out[1] = "VP") =>
              StrLower(call.job_title[1]) \in SingleTokenKeywords
        /\ call.job_title \in {Some("President"), Some("Cofounder"), Some("SVP")} =>
              call.out[1] # "VP"
        /\ call.out[1] = "VP" => call.out[2] \in {9, 10}

C38_Witness ==
    /\ call.fn = "classify"
    /\ call.job_title = Some("Cofounder")
    /\ call.out = <<"Junior", 2>>

\* C39: on every document the poller's normalization produces, the network,
\* community and recommendation categories of the heuristic contribute no
\* point, so the suitability score is at most 3/6 (or null), and the run
\* never changes the manual-review status from unset or unknown to candidate.
C39_NormalizedDocumentNeverCandidate ==
    (call.fn = "scraped" /\ call.pc = "saved") =>
        /\ ~StrIn("network", call.out.reason)
        /\ ~StrIn("community", call.out.reason)
        /\ ~StrIn("recommendations", call.out.reason)
        /\ call.out.score # Null =>
              /\ call.out.score[1] <= 3
              /\ call.out.score_points[1] <= 3
        /\ call.judge_status_before \in {Null, Some(""), Some("unknown")} =>
              call.judge_status = Some("unknown")

C39_Witness ==
    /\ call.fn = "scraped" /\ call.pc = "saved"
    /\ call.raw_data.t = "dict"
    /\ call.raw_data.connections = IntV(8000) /\ call.raw_data.followers = IntV(8000)
    /\ call.out.score = Some(3)
    /\ call.judge_status_before = Some("unknown") /\ call.judge_status = Some("unknown")

\* C40: process_profile on an id that is not in the profile store returns an
\* error result and leaves the store and the audit log unchanged: no status
\* changes, no audit row is appended and no external call is made.
C40_UnknownIdChangesNothing ==
    [][\A r \in RunId :
          (runs[r].pc = "none" /\ runs'[r].pc # "none" /\ runs'[r].pid \notin Pid) =>
              /\ runs'[r].pc = "done" /\ runs'[r].result = "not_found"
              /\ UNCHANGED <<store, logs>>
              /\ runs'[r].scrape_calls = 0 /\ runs'[r].assess_calls = 0
              /\ runs'[r].discovery_calls = 0]_vars

C40_Witness ==
    \E r, q \in RunId :
        /\ q < r
        /\ runs[r].pc = "done" /\ runs[r].result = "not_found" /\ logs[r] = <<>>
        /\ runs[q].pc = "assessing" /\ processing_status[runs[q].pid] = "processing"

====
